---- MODULE Spec2Model ----
(***************************************************************************)
(* Authentication and refresh-token lifecycle of the library backend:      *)
(* registerUser, loginUser, refreshAccessToken and getProfile (auth        *)
(* service), the authenticateToken middleware, the queries of the          *)
(* AuthModel and the UserModel and the jsonwebtoken calls they make.       *)
(*                                                                         *)
(* Every request is one call.  A handler runs synchronously up to its next *)
(* await; the store then answers the awaited query in one atomic step and  *)
(* the handler runs on to its next await or to its response.  The clock    *)
(* counts ticks finer than the second in which jsonwebtoken stamps iat.    *)
(* The tables are what the queries say: refresh_tokens has the columns id, *)
(* user_id, token and expires_at, and no query names a uniqueness          *)
(* constraint or a conflict clause.                                        *)
(***************************************************************************)
EXTENDS Integers, Sequences, FiniteSets, TLC

\* ---------------------------------------------------------------- bounds
NumCalls == 3        \* requests handled in one behaviour
MaxTime == 5         \* last clock tick
TicksPerSec == 2     \* clock ticks in one second of the token timestamps
RefreshTtlSec == 2   \* the refresh TTL in seconds, scaled down from '7d'
AccessTtlSec == 1    \* the access TTL in seconds, scaled down from '2h'

\* ---------------------------------------------------------- configuration
JWT_SECRET == "dev_secret"
JWT_REFRESH_SECRET == "refresh_secret"
ACCESS_TOKEN_TTL == "2h"
REFRESH_TOKEN_TTL == "7d"

Calls == 1..NumCalls

\* ms(ttl): the TTL label as a duration in clock ticks.
ms(ttl) == IF ttl = REFRESH_TOKEN_TTL THEN RefreshTtlSec * TicksPerSec
           ELSE AccessTtlSec * TicksPerSec

\* jsonwebtoken's timespan: the TTL label as whole seconds.
timespan(ttl) == IF ttl = REFRESH_TOKEN_TTL THEN RefreshTtlSec ELSE AccessTtlSec

\* Math.floor(Date.now() / 1000)
Sec(t) == t \div TicksPerSec

\* ------------------------------------------------------------------ users
\* bcrypt.hash: a digest only the same plaintext matches.
Hash(password) == <<"bcrypt", password>>

\* bcrypt.compare
bcryptCompare(password, password_hash) == password_hash = Hash(password)

NoUser == [id |-> 0, username |-> "", email |-> "", password_hash |-> <<"", "">>,
           role |-> "", created_at |-> 0, updated_at |-> 0]

InitUsers ==
  { [id |-> 1, username |-> "alice", email |-> "alice@x.com",
     password_hash |-> Hash("pw123"), role |-> "user",
     created_at |-> 0, updated_at |-> 0],
    [id |-> 2, username |-> "bob", email |-> "bob@x.com",
     password_hash |-> Hash("hunter2"), role |-> "admin",
     created_at |-> 0, updated_at |-> 0] }

\* SELECT * FROM users WHERE username = $1; rows[0] || null
getOneByName(tbl, username) ==
  IF \E u \in tbl : u.username = username
  THEN CHOOSE u \in tbl : u.username = username
  ELSE NoUser

\* ----------------------------------------------------------------- tokens
\* A token is the claims it carries and the secret that signed them.
NoToken == [secret |-> "", id |-> 0, username |-> "", role |-> "", iat |-> 0, exp |-> 0]
Garbage == [secret |-> "garbage", id |-> 0, username |-> "", role |-> "", iat |-> 0,
            exp |-> 0]

NoPayload == [id |-> 0, username |-> "", role |-> ""]

\* Mutant of jwtSign: a sign that accepts a payload carrying exp, keeping its iat.
jwtSignKeepsClaims(payload, secret, ttl, t) ==
  LET iat == IF "iat" \in DOMAIN payload THEN payload.iat ELSE Sec(t)
  IN  [ok |-> TRUE,
       token |-> [secret |-> secret, id |-> payload.id, username |-> payload.username,
                  role |-> payload.role, iat |-> iat, exp |-> iat + timespan(ttl)]]

\* jwt.sign(payload, secret, { expiresIn: ttl }) at clock t.  jsonwebtoken refuses a
\* payload that already carries exp when expiresIn is given ('Bad "options.expiresIn"
\* option the payload already has an "exp" property.') and stamps iat with payload.iat
\* when the payload has one, with the current second otherwise.
jwtSign(payload, secret, ttl, t) ==
  IF "exp" \in DOMAIN payload
  THEN [ok |-> FALSE, token |-> NoToken]
  ELSE LET iat == IF "iat" \in DOMAIN payload THEN payload.iat ELSE Sec(t)
       IN  [ok |-> TRUE,
            token |-> [secret |-> secret, id |-> payload.id,
                       username |-> payload.username, role |-> payload.role,
                       iat |-> iat, exp |-> iat + timespan(ttl)]]

\* Mutant of jwtVerify: a token is still accepted in the second of its exp.
jwtVerifyLate(token, secret, t) ==
  IF token.secret = secret /\ Sec(t) <= token.exp
  THEN [ok |-> TRUE,
        payload |-> [id |-> token.id, username |-> token.username, role |-> token.role,
                     iat |-> token.iat, exp |-> token.exp]]
  ELSE [ok |-> FALSE, payload |-> NoPayload]

\* jwt.verify(token, secret) at clock t: the signature is checked against the secret,
\* then exp against the current second; the decoded payload carries iat and exp.
jwtVerify(token, secret, t) ==
  IF token.secret = secret /\ Sec(t) < token.exp
  THEN [ok |-> TRUE,
        payload |-> [id |-> token.id, username |-> token.username, role |-> token.role,
                     iat |-> token.iat, exp |-> token.exp]]
  ELSE [ok |-> FALSE, payload |-> NoPayload]

generateAccessToken(payload, t) == jwtSign(payload, JWT_SECRET, ACCESS_TOKEN_TTL, t)

generateRefreshToken(payload, t) ==
  jwtSign(payload, JWT_REFRESH_SECRET, REFRESH_TOKEN_TTL, t)

\* --------------------------------------------------- refresh_tokens table
\* What is bound to expires_at: an ISO-8601 instant, or the TTL label itself.
toISOString(t) == [form |-> "iso", t |-> t]
ttlLabel(ttl) == [form |-> ttl, t |-> 0]

NoRow == [id |-> 0, user_id |-> 0, token |-> NoToken, expires_at |-> toISOString(0)]

\* new Date(expires_at) < new Date(): a value that is no date compares false.
isExpired(expires_at, t) == expires_at.form = "iso" /\ expires_at.t < t

\* SELECT 1 FROM refresh_tokens WHERE user_id = $1; rowCount
rowCount(tbl, userId) == Cardinality({r \in tbl : r.user_id = userId})

\* Mutant of updateToken: the UPDATE matches no row.
updateTokenKeep(tbl, userId, token, ttl) == tbl

\* UPDATE refresh_tokens SET token = $2, expires_at = $3 WHERE user_id = $1
updateToken(tbl, userId, token, ttl) ==
  { IF r.user_id = userId THEN [r EXCEPT !.token = token, !.expires_at = ttl] ELSE r
    : r \in tbl }

\* Mutant of insertToken: the row's own id is bound to user_id.
insertTokenSwapped(tbl, rowId, userId, token, ttl) ==
  tbl \cup {[id |-> userId, user_id |-> rowId, token |-> token, expires_at |-> ttl]}

\* INSERT INTO refresh_tokens (user_id, token, expires_at) VALUES ($1, $2, $3)
insertToken(tbl, rowId, userId, token, ttl) ==
  tbl \cup {[id |-> rowId, user_id |-> userId, token |-> token, expires_at |-> ttl]}

\* SELECT * FROM refresh_tokens WHERE token = $1: the rows rows[0] is taken from.
getRefreshToken(tbl, token) == {r \in tbl : r.token = token}

\* DELETE FROM refresh_tokens WHERE token = $1
deleteRefreshToken(tbl, token) == {r \in tbl : r.token # token}

\* ------------------------------------------------------------------ state
VARIABLES
  users,     \* the users table
  tokens,    \* the refresh_tokens table
  nextId,    \* the serial of refresh_tokens.id
  now,       \* the clock, in ticks
  mode,      \* what the environment does: "normal", or "faults" when the store and
             \* the hasher may fail
  kind,      \* per call: "idle", "login" or "refresh"
  pc,        \* per call: the await the handler is suspended at, or "done"
  req,       \* per call: the request body
  loc,       \* per call: the handler's local variables
  res,       \* per call: the response (status 0: none yet)
  seq,       \* the number of responses sent so far
  started,   \* per call: seq when the request was received
  ended,     \* per call: seq once its response was sent (the order of completion)
  books,     \* the books table
  loans      \* the book_loans table

vars == <<users, tokens, nextId, now, mode, kind, pc, req, loc, res, seq, started, ended,
          books, loans>>

NoReq == [username |-> "", password |-> "", refreshToken |-> NoToken]

\* user, accToken, refToken, stored, payload: the handlers' variables of those names
\* (accToken and refToken also stand for newAccessToken and newRefreshToken);
\* userId, token, ttl: the arguments of the AuthModel's refreshToken;
\* present, stale, verified: what refreshAccessToken found; failed: whether an awaited
\* query or hash failed; issuedAt: the clock when the tokens were signed.
NoLoc == [user |-> NoUser, accToken |-> NoToken, refToken |-> NoToken,
          stored |-> NoRow, payload |-> NoPayload,
          userId |-> 0, token |-> NoToken, ttl |-> toISOString(0), issuedAt |-> 0,
          present |-> FALSE, stale |-> FALSE, verified |-> FALSE, failed |-> FALSE]

NoRes == [status |-> 0, body |-> [error |-> ""]]

\* The books the library starts with: create(title, description) inserts a book with
\* available defaulted to true.
InitBooks ==
  { [id |-> 1, title |-> "Dune", available |-> TRUE, updated_at |-> 0],
    [id |-> 2, title |-> "Emma", available |-> TRUE, updated_at |-> 0] }

InitCommon ==
  /\ books = InitBooks
  /\ loans = {}
  /\ users = InitUsers
  /\ tokens = {}
  /\ nextId = 1
  /\ now = 0
  /\ kind = [c \in Calls |-> "idle"]
  /\ pc = [c \in Calls |-> "idle"]
  /\ req = [c \in Calls |-> NoReq]
  /\ loc = [c \in Calls |-> NoLoc]
  /\ res = [c \in Calls |-> NoRes]
  /\ seq = 0
  /\ started = [c \in Calls |-> 0]
  /\ ended = [c \in Calls |-> 0]

Init == InitCommon /\ mode = "normal"

\* The same, with a store and a hasher that may fail.
InitFaults == InitCommon /\ mode = "faults"

\* Whether the awaited store query or hash succeeds.
Outcomes == IF mode = "faults" THEN {TRUE, FALSE} ELSE {TRUE}

\* Time passes.
Tick ==
  /\ now < MaxTime
  /\ now' = now + 1
  /\ UNCHANGED <<books, loans, users, tokens, nextId, mode, kind, pc, req, loc, res, seq,
               started, ended>>

\* A request is received (calls are taken in order) and its handler runs to its first
\* await or to its response; a suspended handler is resumed and runs to its next one.
\* step.status is the response's status, 0 when the handler suspends at step.pc.
Run(c, step, received) ==
  /\ loc' = [loc EXCEPT ![c] = step.loc]
  /\ started' = IF received THEN [started EXCEPT ![c] = seq] ELSE started
  /\ IF step.status # 0
     THEN /\ pc' = [pc EXCEPT ![c] = "done"]
          /\ res' = [res EXCEPT ![c] = [status |-> step.status, body |-> step.body]]
          /\ ended' = [ended EXCEPT ![c] = seq + 1]
          /\ seq' = seq + 1
     ELSE /\ pc' = [pc EXCEPT ![c] = step.pc]
          /\ UNCHANGED <<res, ended, seq>>

Answer(status, body, l) == [pc |-> "done", status |-> status, body |-> body, loc |-> l]
Await(at, l) == [pc |-> at, status |-> 0, body |-> [error |-> ""], loc |-> l]

Receivable(c) == kind[c] = "idle" /\ \A d \in Calls : d < c => kind[d] # "idle"

\* ------------------------------------------------- AuthModel.refreshToken
\* refreshToken(userId, token, ttl) after its SELECT: UPDATE when a row exists for the
\* user, INSERT otherwise.
upsertSelected(l, count) ==
  IF count > 0 THEN Await("update", l) ELSE Await("insert", l)

\* The table after the UPDATE or the INSERT that refreshToken awaits at `at`.
upsertWritten(tbl, at, rowId, l) ==
  IF at = "update" THEN updateToken(tbl, l.userId, l.token, l.ttl)
  ELSE insertToken(tbl, rowId, l.userId, l.token, l.ttl)

\* -------------------------------------------------------------- loginUser
LoginBodies ==
  { [username |-> "alice", password |-> "pw123", refreshToken |-> NoToken],
    [username |-> "bob", password |-> "hunter2", refreshToken |-> NoToken] }

\* Mutant of expiresAt: the TTL label bound to expires_at instead of the instant.
expiresAtLabel(t) == ttlLabel(REFRESH_TOKEN_TTL)

\* new Date(Date.now() + ms(REFRESH_TOKEN_TTL)).toISOString()
expiresAt(t) == toISOString(t + ms(REFRESH_TOKEN_TTL))

loginCaught(l) == Answer(500, [error |-> "Server error"], l)

\* The body check, up to the await of getOneByName.
loginReceived(body) ==
  IF body.username = "" \/ body.password = ""
  THEN Answer(400, [error |-> "username and password are required"], NoLoc)
  ELSE Await("getOneByName", NoLoc)

\* Mutant of loginGotUser: an unknown username is answered 404 'User not found'.
loginGotUserNotFound(l, user) ==
  IF user = NoUser \/ user.password_hash = NoUser.password_hash
  THEN Answer(404, [error |-> "User not found"], l)
  ELSE Await("compare", [l EXCEPT !.user = user])

\* From the user row to the await of bcrypt.compare.
loginGotUser(l, user) ==
  IF user = NoUser \/ user.password_hash = NoUser.password_hash
  THEN Answer(400, [error |-> "Invalid credentials"], l)
  ELSE Await("compare", [l EXCEPT !.user = user])

\* From the password check to the await of refreshToken's SELECT: the payload, the two
\* tokens and expiresAt = Date.now() + ms(REFRESH_TOKEN_TTL).
loginCompared(l, body, t) ==
  IF ~bcryptCompare(body.password, l.user.password_hash)
  THEN Answer(400, [error |-> "Invalid credentials"], l)
  ELSE LET payload == [id |-> l.user.id, username |-> l.user.username,
                       role |-> l.user.role]
           acc == jwtSign(payload, JWT_SECRET, ACCESS_TOKEN_TTL, t)
           ref == jwtSign(payload, JWT_REFRESH_SECRET, REFRESH_TOKEN_TTL, t)
       IN  IF ~acc.ok \/ ~ref.ok
           THEN loginCaught(l)
           ELSE Await("select",
                      [l EXCEPT !.payload = payload, !.accToken = acc.token,
                                !.refToken = ref.token, !.issuedAt = t,
                                !.userId = l.user.id, !.token = ref.token,
                                !.ttl = expiresAt(t)])

\* res.json(...) once refreshToken has returned.
loginStored(l) ==
  Answer(200, [message |-> "Vhod uspeshen", accToken |-> l.accToken,
               refToken |-> l.refToken, expiresIn |-> ACCESS_TOKEN_TTL], l)

LoginStart(c) ==
  /\ Receivable(c)
  /\ \E body \in LoginBodies :
       /\ kind' = [kind EXCEPT ![c] = "login"]
       /\ req' = [req EXCEPT ![c] = body]
       /\ Run(c, loginReceived(body), TRUE)
  /\ UNCHANGED <<books, loans, users, tokens, nextId, now, mode>>

LoginResume(c) ==
  /\ kind[c] = "login"
  /\ pc[c] \notin {"idle", "done"}
  /\ \E ok \in Outcomes :
       LET l == loc[c]
           at == pc[c]
       IN  /\ Run(c, CASE ~ok -> loginCaught([l EXCEPT !.failed = TRUE])
                       [] at = "getOneByName" ->
                            loginGotUser(l, getOneByName(users, req[c].username))
                       [] at = "compare" -> loginCompared(l, req[c], now)
                       [] at = "select" -> upsertSelected(l, rowCount(tokens, l.userId))
                       [] OTHER -> loginStored(l),
                  FALSE)
           /\ tokens' = IF ok /\ at \in {"update", "insert"}
                        THEN upsertWritten(tokens, at, nextId, l) ELSE tokens
           /\ nextId' = IF ok /\ at = "insert" THEN nextId + 1 ELSE nextId
  /\ UNCHANGED <<books, loans, users, now, mode, kind, req>>

\* ----------------------------------------------------- refreshAccessToken
\* What a client can send as refreshToken: nothing, a string of its own, or a token
\* some response has carried.
Presentable ==
  {NoToken, Garbage}
    \cup {res[d].body.refToken : d \in {e \in Calls : kind[e] = "login" /\ res[e].status = 200}}
    \cup {res[d].body.accToken : d \in {e \in Calls : kind[e] = "login" /\ res[e].status = 200}}
    \cup {res[d].body.refreshToken :
            d \in {e \in Calls : kind[e] = "refresh" /\ res[e].status = 200}}
    \cup {res[d].body.accessToken :
            d \in {e \in Calls : kind[e] = "refresh" /\ res[e].status = 200}}

refreshCaught(l) ==
  Answer(403, [error |-> "Invalid or expired refresh token"], l)

\* Mutant of refreshReceived: the body is not checked.
refreshReceivedUnchecked(body) == Await("getRefreshToken", NoLoc)

\* The body check, up to the await of getRefreshToken.
refreshReceived(body) ==
  IF body.refreshToken = NoToken
  THEN Answer(400, [error |-> "refreshToken is required"], NoLoc)
  ELSE Await("getRefreshToken", NoLoc)

\* From a stored row to the next await: the expiry check, jwt.verify, the two new
\* tokens and the call of replaceRefreshToken(payload.id, refreshToken, newRefreshToken,
\* REFRESH_TOKEN_TTL).  The payload handed to generateAccessToken is the one jwt.verify
\* decoded: it carries exp, jwtSign refuses it, and the catch answers 403, so that the
\* await of replaceRefreshToken's DELETE is written here as the handler has it but is
\* not reached.
refreshFound(l, token, stored, t) ==
  LET m == [l EXCEPT !.stored = stored, !.present = TRUE] IN
  IF isExpired(stored.expires_at, t)
  THEN Await("deleteExpired", [m EXCEPT !.stale = TRUE])
  ELSE LET v == jwtVerify(token, JWT_REFRESH_SECRET, t) IN
    IF ~v.ok
    THEN refreshCaught(m)
    ELSE LET acc == generateAccessToken(v.payload, t)
             ref == generateRefreshToken(v.payload, t)
             n == [m EXCEPT !.verified = TRUE, !.payload = v.payload]
         IN  IF ~acc.ok \/ ~ref.ok
             THEN refreshCaught(n)
             ELSE Await("replaceDelete",
                        [n EXCEPT !.accToken = acc.token, !.refToken = ref.token,
                                  !.issuedAt = t, !.userId = v.payload.id,
                                  !.token = ref.token,
                                  !.ttl = ttlLabel(REFRESH_TOKEN_TTL)])

\* Mutant of refreshGot: the store's answer is not checked.
refreshGotUnchecked(l, token, found, stored, t) == refreshFound(l, token, stored, t)

\* The answer of getRefreshToken (found: whether rows[0] is defined) and what follows.
refreshGot(l, token, found, stored, t) ==
  IF ~found
  THEN Answer(403, [error |-> "Invalid refresh token"], l)
  ELSE refreshFound(l, token, stored, t)

refreshExpired(l) == Answer(403, [error |-> "Refresh token expired"], l)

\* res.status(200).json(...) once replaceRefreshToken has returned.
refreshReplaced(l) ==
  Answer(200, [message |-> "Tokens refreshed successfully", accessToken |-> l.accToken,
               refreshToken |-> l.refToken, expiresIn |-> ACCESS_TOKEN_TTL], l)

RefreshStart(c) ==
  /\ Receivable(c)
  /\ \E t \in Presentable :
       /\ kind' = [kind EXCEPT ![c] = "refresh"]
       /\ req' = [req EXCEPT ![c] = [NoReq EXCEPT !.refreshToken = t]]
       /\ Run(c, refreshReceived([NoReq EXCEPT !.refreshToken = t]), TRUE)
  /\ UNCHANGED <<books, loans, users, tokens, nextId, now, mode>>

RefreshResume(c) ==
  /\ kind[c] = "refresh"
  /\ pc[c] \notin {"idle", "done"}
  /\ \E ok \in Outcomes :
       LET l == loc[c]
           at == pc[c]
           token == req[c].refreshToken
           rows == getRefreshToken(tokens, token)
       IN  /\ \E stored \in (IF at = "getRefreshToken" /\ rows # {} THEN rows ELSE {NoRow}) :
                Run(c, CASE ~ok -> refreshCaught([l EXCEPT !.failed = TRUE])
                         [] at = "getRefreshToken" ->
                              refreshGot(l, token, rows # {}, stored, now)
                         [] at = "deleteExpired" -> refreshExpired(l)
                         [] at = "replaceDelete" -> Await("select", l)
                         [] at = "select" -> upsertSelected(l, rowCount(tokens, l.userId))
                         [] OTHER -> refreshReplaced(l),
                    FALSE)
           /\ tokens' = CASE ~ok -> tokens
                          [] at \in {"deleteExpired", "replaceDelete"} ->
                               deleteRefreshToken(tokens, token)
                          [] at \in {"update", "insert"} ->
                               upsertWritten(tokens, at, nextId, l)
                          [] OTHER -> tokens
           /\ nextId' = IF ok /\ at = "insert" THEN nextId + 1 ELSE nextId
  /\ UNCHANGED <<books, loans, users, now, mode, kind, req>>

Next ==
  \/ Tick
  \/ \E c \in Calls : LoginStart(c)
  \/ \E c \in Calls : LoginResume(c)
  \/ \E c \in Calls : RefreshStart(c)
  \/ \E c \in Calls : RefreshResume(c)

Spec == Init /\ [][Next]_vars

SpecFaults == InitFaults /\ [][Next]_vars

\* =========================================================================
\* The other routes of the auth router: POST /auth/register, GET /auth/profile behind
\* authenticateToken, and logins and refreshes with every kind of body.
\* =========================================================================

\* The locals of registerUser and of authenticateToken followed by getProfile:
\* identity is req.user, sent and next what the middleware did, password_hash and
\* newUser the variables of registerUser of those names.
NoCtx == [identity |-> NoPayload, sent |-> FALSE, next |-> FALSE,
          password_hash |-> NoUser.password_hash, newUser |-> NoUser, failed |-> FALSE]

\* ----------------------------------------------------------- users table
\* The id the store gives the next inserted user.
nextUserId(tbl) == 1 + Cardinality(tbl)

\* users.username is unique: an INSERT of a username the table holds is refused.
uniqueViolation(tbl, userName) == \E u \in tbl : u.username = userName

\* INSERT INTO users (username, email, password_hash, role) values ($1, $2, $3, $4)
\* RETURNING *; rows[0].  The store sets id, created_at and updated_at.
create(tbl, userName, userEmail, password_hash, role, t) ==
  [id |-> nextUserId(tbl), username |-> userName, email |-> userEmail,
   password_hash |-> password_hash, role |-> role, created_at |-> t, updated_at |-> t]

\* SELECT * FROM users WHERE id = $1; rows[0] || null
getOneById(tbl, userId) ==
  IF \E u \in tbl : u.id = userId THEN CHOOSE u \in tbl : u.id = userId ELSE NoUser

\* ----------------------------------------------------------- registerUser
NoRole == ""

RegisterBodies ==
  { [username |-> "carol", email |-> "carol@x.com", password |-> "pw1", role |-> NoRole],
    [username |-> "carol", email |-> "carol@x.com", password |-> "pw1", role |-> "admin"],
    [username |-> "alice", email |-> "al@x.com", password |-> "pw1", role |-> NoRole],
    [username |-> "carol", email |-> "", password |-> "pw1", role |-> NoRole] }

registerCaught(l) == Answer(500, [error |-> "Server error"], l)

\* The body check, up to the await of getOneByName.
registerReceived(body) ==
  IF body.username = "" \/ body.email = "" \/ body.password = ""
  THEN Answer(400, [error |-> "username, email and password are required"], NoCtx)
  ELSE Await("getOneByName", NoCtx)

\* Mutant of registerGotUser: the lookup's answer is not checked.
registerGotUserUnchecked(l, existsByName) == Await("hash", l)

\* From the lookup to the await of bcrypt.hash.
registerGotUser(l, existsByName) ==
  IF existsByName # NoUser
  THEN Answer(400, [error |-> "username already taken"], l)
  ELSE Await("hash", l)

\* Mutant of registerHashed: the password is stored as it came.
registerHashedPlain(l, body) ==
  Await("create", [l EXCEPT !.password_hash = <<"plain", body.password>>])

\* From the hash to the await of create.
registerHashed(l, body) == Await("create", [l EXCEPT !.password_hash = Hash(body.password)])

\* role || 'user'
roleOrDefault(role) == IF role = NoRole THEN "user" ELSE role

\* res.status(201).json(...) once create has returned the new row.
registerCreated(l, newUser) ==
  Answer(201, [message |-> "Registratsiya uspeshna",
               user |-> [id |-> newUser.id, username |-> newUser.username,
                         email |-> newUser.email, role |-> newUser.role]],
         [l EXCEPT !.newUser = newUser])

RegisterStart(c) ==
  /\ Receivable(c)
  /\ \E body \in RegisterBodies :
       /\ kind' = [kind EXCEPT ![c] = "register"]
       /\ req' = [req EXCEPT ![c] = body]
       /\ Run(c, registerReceived(body), TRUE)
  /\ UNCHANGED <<books, loans, users, tokens, nextId, now, mode>>

RegisterResume(c) ==
  /\ kind[c] = "register"
  /\ pc[c] \notin {"idle", "done"}
  /\ \E ok \in Outcomes :
       LET l == loc[c]
           at == pc[c]
           body == req[c]
           refused == at = "create" /\ uniqueViolation(users, body.username)
           newUser == create(users, body.username, body.email, l.password_hash,
                             roleOrDefault(body.role), now)
       IN  /\ Run(c, CASE ~ok \/ refused -> registerCaught([l EXCEPT !.failed = TRUE])
                       [] at = "getOneByName" ->
                            registerGotUser(l, getOneByName(users, body.username))
                       [] at = "hash" -> registerHashed(l, body)
                       [] OTHER -> registerCreated(l, newUser),
                  FALSE)
           /\ users' = IF ok /\ ~refused /\ at = "create" THEN users \cup {newUser}
                       ELSE users
  /\ UNCHANGED <<books, loans, tokens, nextId, now, mode, kind, req>>

\* ------------------------------------------------------ authenticateToken
\* The Authorization header is a string; here it is the sequence of its pieces: a
\* space, a word, or a token some response has carried.  No header is <<>>.
Sp == [k |-> "sp", w |-> " ", t |-> NoToken]
Word(w) == [k |-> "word", w |-> w, t |-> NoToken]
Tok(t) == [k |-> "tok", w |-> "", t |-> t]

\* authHeader.split(' '): the pieces between the spaces, one part more than spaces.
RECURSIVE splitAt(_, _, _)
splitAt(rest, part, parts) ==
  IF rest = <<>> THEN Append(parts, part)
  ELSE IF Head(rest).k = "sp" THEN splitAt(Tail(rest), <<>>, Append(parts, part))
  ELSE splitAt(Tail(rest), Append(part, Head(rest)), parts)

\* Mutant of split: runs of spaces separate, as split(/ +/) with empty parts dropped.
splitWords(authHeader) ==
  SelectSeq(splitAt(authHeader, <<>>, <<>>), LAMBDA part : part # <<>>)

split(authHeader) == splitAt(authHeader, <<>>, <<>>)

\* jwt.verify(token, JWT_SECRET, callback) on one part of the header: a part that is
\* not one whole token is malformed.
verifyPart(part, secret, t) ==
  IF Len(part) = 1 /\ part[1].k = "tok" THEN jwtVerify(part[1].t, secret, t)
  ELSE [ok |-> FALSE, payload |-> NoPayload]

\* Mutant of mwSend: the response is sent without return, and next() is called too.
mwSendAndNext(status, error) ==
  [sent |-> TRUE, next |-> TRUE, status |-> status, body |-> [error |-> error],
   user |-> NoPayload]

\* What the middleware does with a request: the response it sends (sent), or the
\* identity it sets on the request before it calls next().
mwSend(status, error) ==
  [sent |-> TRUE, next |-> FALSE, status |-> status, body |-> [error |-> error],
   user |-> NoPayload]

\* Mutant of authenticateToken: the token is verified against the refresh secret.
authenticateTokenRefreshSecret(authHeader, t) ==
  IF authHeader = <<>> THEN mwSend(401, "No authorization header")
  ELSE LET parts == split(authHeader) IN
    IF Len(parts) # 2 \/ parts[1] # <<Word("Bearer")>>
    THEN mwSend(401, "Invalid authorization format")
    ELSE LET v == verifyPart(parts[2], JWT_REFRESH_SECRET, t) IN
      IF ~v.ok THEN mwSend(403, "Invalid or expired token")
      ELSE [sent |-> FALSE, next |-> TRUE, status |-> 0, body |-> [error |-> ""],
            user |-> v.payload]

authenticateToken(authHeader, t) ==
  IF authHeader = <<>> THEN mwSend(401, "No authorization header")
  ELSE LET parts == split(authHeader) IN
    IF Len(parts) # 2 \/ parts[1] # <<Word("Bearer")>>
    THEN mwSend(401, "Invalid authorization format")
    ELSE LET v == verifyPart(parts[2], JWT_SECRET, t) IN
      IF ~v.ok THEN mwSend(403, "Invalid or expired token")
      ELSE [sent |-> FALSE, next |-> TRUE, status |-> 0, body |-> [error |-> ""],
            user |-> v.payload]

\* ------------------------------------------------------------- getProfile
\* Mutant of getProfileReceived: req.user is not checked.
getProfileReceivedUnchecked(l) == Await("getOneById", l)

\* The handler's start, up to the await of getOneById.
getProfileReceived(l) ==
  IF l.identity = NoPayload
  THEN Answer(401, [error |-> "Unauthorized"], l)
  ELSE Await("getOneById", l)

\* Mutant of getProfileGotUser: the whole row is sent.
getProfileGotUserRow(l, user) ==
  IF user = NoUser THEN Answer(404, [error |-> "User not found"], l)
  ELSE Answer(200, user, l)

\* From the user row to the response.
getProfileGotUser(l, user) ==
  IF user = NoUser
  THEN Answer(404, [error |-> "User not found"], l)
  ELSE Answer(200, [id |-> user.id, username |-> user.username, email |-> user.email,
                    role |-> user.role, created_at |-> user.created_at,
                    updated_at |-> user.updated_at], l)

getProfileCaught(l) == Answer(500, [error |-> "Server error"], l)

\* The tokens a client holds: those some login has returned.
Issued ==
  {res[d].body.accToken : d \in {e \in Calls : kind[e] = "login" /\ res[e].status = 200}}
    \cup {res[d].body.refToken :
            d \in {e \in Calls : kind[e] = "login" /\ res[e].status = 200}}

\* The Authorization headers a client sends.
Headers ==
  { <<>>, <<Word("Bearer")>>, <<Word("Bearer"), Sp>>,
    <<Word("Bearer"), Sp, Tok(Garbage)>>, <<Word("bearer"), Sp, Tok(Garbage)>> }
    \cup {<<Word("Bearer"), Sp, Tok(t)>> : t \in Issued}
    \cup {<<Word("Bearer"), Sp, Sp, Tok(t)>> : t \in Issued}
    \cup {<<Word("Basic"), Sp, Tok(t)>> : t \in Issued}
    \cup {<<Tok(t)>> : t \in Issued}

\* router.get('/profile', authenticateToken, getProfile): the middleware, then, when it
\* has called next(), the handler up to its await.
ProfileStart(c) ==
  /\ Receivable(c)
  /\ \E authHeader \in Headers :
       LET mw == authenticateToken(authHeader, now)
           l == [NoCtx EXCEPT !.identity = mw.user, !.sent = mw.sent, !.next = mw.next]
       IN  /\ kind' = [kind EXCEPT ![c] = "profile"]
           /\ req' = [req EXCEPT ![c] = [authorization |-> authHeader]]
           /\ Run(c, IF mw.next THEN getProfileReceived(l)
                     ELSE Answer(mw.status, mw.body, l), TRUE)
  /\ UNCHANGED <<books, loans, users, tokens, nextId, now, mode>>

ProfileResume(c) ==
  /\ kind[c] = "profile"
  /\ pc[c] \notin {"idle", "done"}
  /\ \E ok \in Outcomes :
       Run(c, IF ~ok THEN getProfileCaught([loc[c] EXCEPT !.failed = TRUE])
              ELSE getProfileGotUser(loc[c], getOneById(users, loc[c].identity.id)),
           FALSE)
  /\ UNCHANGED <<books, loans, users, tokens, nextId, now, mode, kind, req>>

\* ------------------------------------------------------- logins of any body
AnyLoginBodies ==
  { [username |-> "alice", password |-> "pw123", refreshToken |-> NoToken],
    [username |-> "alice", password |-> "wrong", refreshToken |-> NoToken],
    [username |-> "carol", password |-> "pw1", refreshToken |-> NoToken],
    [username |-> "carol", password |-> "", refreshToken |-> NoToken] }

LoginAny(c) ==
  /\ Receivable(c)
  /\ \E body \in AnyLoginBodies :
       /\ kind' = [kind EXCEPT ![c] = "login"]
       /\ req' = [req EXCEPT ![c] = body]
       /\ Run(c, loginReceived(body), TRUE)
  /\ UNCHANGED <<books, loans, users, tokens, nextId, now, mode>>

NextAuth ==
  \/ Tick
  \/ \E c \in Calls : RegisterStart(c)
  \/ \E c \in Calls : RegisterResume(c)
  \/ \E c \in Calls : LoginAny(c)
  \/ \E c \in Calls : LoginResume(c)
  \/ \E c \in Calls : ProfileStart(c)
  \/ \E c \in Calls : ProfileResume(c)
  \/ \E c \in Calls : RefreshStart(c)
  \/ \E c \in Calls : RefreshResume(c)

SpecAuth == Init /\ [][NextAuth]_vars

\* =========================================================================
\* The token issuer on its own: generateAccessToken and verifyAccessToken applied to
\* payloads and at clock values drawn from small sets.
\* =========================================================================
Payloads ==
  { [id |-> 1, username |-> "alice", role |-> "user"],
    [id |-> 2, username |-> "bob", role |-> "admin"],
    [id |-> 3, username |-> "carol", role |-> "user"] }

\* verifyAccessToken(token): jwt.verify against JWT_SECRET; ok FALSE is the Error it
\* throws.
verifyAccessToken(token, t) == jwtVerify(token, JWT_SECRET, t)

\* A call of generateAccessToken(payload) at the current clock.
IssueAccess(c) ==
  /\ Receivable(c)
  /\ \E payload \in Payloads :
       LET signed == generateAccessToken(payload, now) IN
       /\ kind' = [kind EXCEPT ![c] = "issue"]
       /\ req' = [req EXCEPT ![c] = payload]
       /\ Run(c, Answer(IF signed.ok THEN 200 ELSE 500, [token |-> signed.token],
                        [issuedAt |-> now]), TRUE)
  /\ UNCHANGED <<books, loans, users, tokens, nextId, now, mode>>

\* A call of verifyAccessToken on a token some earlier call has issued.
VerifyAccess(c) ==
  /\ Receivable(c)
  /\ \E d \in Calls :
       /\ kind[d] = "issue" /\ res[d].status = 200
       /\ LET token == res[d].body.token
              v == verifyAccessToken(token, now)
          IN  /\ kind' = [kind EXCEPT ![c] = "verify"]
              /\ req' = [req EXCEPT ![c] = [token |-> token, payload |-> req[d],
                                            issuedAt |-> loc[d].issuedAt]]
              /\ Run(c, Answer(IF v.ok THEN 200 ELSE 500, [payload |-> v.payload],
                               [verifiedAt |-> now]), TRUE)
  /\ UNCHANGED <<books, loans, users, tokens, nextId, now, mode>>

NextTokens ==
  \/ Tick
  \/ \E c \in Calls : IssueAccess(c)
  \/ \E c \in Calls : VerifyAccess(c)

SpecTokens == Init /\ [][NextTokens]_vars

\* =========================================================================
\* getProfile when users are deleted: DELETE /users/:id (deleteUser), logins,
\* GET /auth/profile, and getProfile applied to a request no middleware has touched.
\* =========================================================================

\* DELETE FROM users WHERE id = $1 RETURNING *: the table without the row.
remove(tbl, userId) == {u \in tbl : u.id # userId}

\* res.json / res.status(404).json once remove has returned rows[0].
deleteUserRemoved(l, deletedUser) ==
  IF deletedUser # NoUser
  THEN Answer(200, [message |-> "User deleted successfully", user |-> deletedUser], l)
  ELSE Answer(404, [message |-> "User not found"], l)

deleteUserCaught(l) ==
  Answer(500, [message |-> "Error deleting user", error |-> "error.message"], l)

\* The ids a client names in DELETE /users/:id.
UserIds == {1, 2, 9}

DeleteUserStart(c) ==
  /\ Receivable(c)
  /\ \E userId \in UserIds :
       /\ kind' = [kind EXCEPT ![c] = "deleteUser"]
       /\ req' = [req EXCEPT ![c] = [id |-> userId]]
       /\ Run(c, Await("remove", NoCtx), TRUE)
  /\ UNCHANGED <<books, loans, users, tokens, nextId, now, mode>>

DeleteUserResume(c) ==
  /\ kind[c] = "deleteUser"
  /\ pc[c] = "remove"
  /\ \E ok \in Outcomes :
       /\ Run(c, IF ~ok THEN deleteUserCaught([loc[c] EXCEPT !.failed = TRUE])
                 ELSE deleteUserRemoved(loc[c], getOneById(users, req[c].id)),
              FALSE)
       /\ users' = IF ok THEN remove(users, req[c].id) ELSE users
  /\ UNCHANGED <<books, loans, tokens, nextId, now, mode, kind, req>>

\* getProfile(req, res) on a request with no user set.
GetProfileDirect(c) ==
  /\ Receivable(c)
  /\ kind' = [kind EXCEPT ![c] = "getProfile"]
  /\ req' = [req EXCEPT ![c] = [authorization |-> <<>>]]
  /\ Run(c, getProfileReceived(NoCtx), TRUE)
  /\ UNCHANGED <<books, loans, users, tokens, nextId, now, mode>>

NextProfile ==
  \/ Tick
  \/ \E c \in Calls : LoginStart(c)
  \/ \E c \in Calls : LoginResume(c)
  \/ \E c \in Calls : ProfileStart(c)
  \/ \E c \in Calls : ProfileResume(c)
  \/ \E c \in Calls : GetProfileDirect(c)
  \/ \E c \in Calls : DeleteUserStart(c)
  \/ \E c \in Calls : DeleteUserResume(c)

SpecProfile == Init /\ [][NextProfile]_vars

\* ------------------------------------------------------------- book model
NoBook == [id |-> 0, title |-> "", available |-> FALSE, updated_at |-> 0]

\* SELECT * FROM books WHERE id = $1; rows[0] (getOneById of the book model)
getOneBookById(tbl, bookId) ==
  IF \E b \in tbl : b.id = bookId THEN CHOOSE b \in tbl : b.id = bookId ELSE NoBook

\* UPDATE books SET available = $2, updated_at = NOW() WHERE id = $1
updateStatus(tbl, book_id, isAvailable, t) ==
  { IF b.id = book_id THEN [b EXCEPT !.available = isAvailable, !.updated_at = t] ELSE b
    : b \in tbl }

\* -------------------------------------------------------- book-loans model
\* returned_at IS NULL
Null == 0 - 1

NoLoan == [book_id |-> 0, user_id |-> 0, taken_at |-> 0, returned_at |-> Null]

\* The rows of UPDATE book_loans ... WHERE book_id = $1 AND user_id = $2 AND
\* returned_at IS NULL
activeLoans(tbl, bookId, userId) ==
  {n \in tbl : n.book_id = bookId /\ n.user_id = userId /\ n.returned_at = Null}

\* UPDATE book_loans SET returned_at = NOW() WHERE ...: the table afterwards.
turnBackBook(tbl, bookId, userId, t) ==
  { IF n \in activeLoans(tbl, bookId, userId) THEN [n EXCEPT !.returned_at = t] ELSE n
    : n \in tbl }

\* ------------------------------------------------- checkoutBook, returnBook
\* identity, sent, next: as for getProfile; book, loan: the handlers' variables of
\* those names; failed: whether an awaited query failed.
NoLoanCtx == [identity |-> NoPayload, sent |-> FALSE, next |-> FALSE,
              book |-> NoBook, loan |-> NoLoan, failed |-> FALSE]

checkoutCaught(l) == Answer(500, [error |-> "Server error"], l)

\* From the book row to the await of updateStatus(bookId, false).
checkoutGotBook(l, book) ==
  IF book = NoBook THEN Answer(404, [error |-> "Book not found"], l)
  ELSE IF ~book.available THEN Answer(400, [error |-> "Book is not available"], l)
  ELSE Await("updateStatus", [l EXCEPT !.book = book])

\* res.status(201).json(...) once updateStatus has returned.
checkoutUpdated(l) == Answer(201, [message |-> "Book checked out successfully"], l)

returnCaught(l) == Answer(500, [error |-> "Server error"], l)

\* From the book row to the await of turnBackBook(bookId, userId).
returnGotBook(l, book) ==
  IF book = NoBook THEN Answer(404, [error |-> "Book not found"], l)
  ELSE Await("turnBackBook", [l EXCEPT !.book = book])

\* From the loan turnBackBook returned to the await of updateStatus(bookId, true).
returnTurnedBack(l, loan) ==
  IF loan = NoLoan
  THEN Answer(400, [error |-> "No active loan found for this user/book"], l)
  ELSE Await("updateStatus", [l EXCEPT !.loan = loan])

\* res.json(...) once updateStatus has returned.
returnUpdated(l) ==
  Answer(200, [message |-> "Book returned successfully", loan |-> l.loan], l)

\* Number(req.params.id): two books of the library and an id no book has.
BookIds == {1, 2, 9}

\* The Authorization headers a client of the loan routes sends.
LoanHeaders == {<<>>} \cup {<<Word("Bearer"), Sp, Tok(t)>> : t \in Issued}

\* router.post('/:id', authenticateToken, checkoutBook)
CheckoutStart(c) ==
  /\ Receivable(c)
  /\ \E authHeader \in LoanHeaders, bookId \in BookIds :
       LET mw == authenticateToken(authHeader, now)
           l == [NoLoanCtx EXCEPT !.identity = mw.user, !.sent = mw.sent,
                                  !.next = mw.next]
       IN  /\ kind' = [kind EXCEPT ![c] = "checkout"]
           /\ req' = [req EXCEPT ![c] = [authorization |-> authHeader, id |-> bookId]]
           /\ Run(c, IF mw.next THEN Await("getOneById", l)
                     ELSE Answer(mw.status, mw.body, l), TRUE)
  /\ UNCHANGED <<books, loans, users, tokens, nextId, now, mode>>

CheckoutResume(c) ==
  /\ kind[c] = "checkout"
  /\ pc[c] \notin {"idle", "done"}
  /\ \E ok \in Outcomes :
       LET l == loc[c]
           at == pc[c]
       IN  /\ Run(c, CASE ~ok -> checkoutCaught([l EXCEPT !.failed = TRUE])
                       [] at = "getOneById" ->
                            checkoutGotBook(l, getOneBookById(books, req[c].id))
                       [] OTHER -> checkoutUpdated(l),
                  FALSE)
           /\ books' = IF ok /\ at = "updateStatus"
                       THEN updateStatus(books, req[c].id, FALSE, now) ELSE books
  /\ UNCHANGED <<loans, users, tokens, nextId, now, mode, kind, req>>

\* router.patch('/:id', authenticateToken, returnBook), with Number(req.body.user_id)
ReturnStart(c) ==
  /\ Receivable(c)
  /\ \E authHeader \in LoanHeaders, bookId \in BookIds, userId \in UserIds :
       LET mw == authenticateToken(authHeader, now)
           l == [NoLoanCtx EXCEPT !.identity = mw.user, !.sent = mw.sent,
                                  !.next = mw.next]
       IN  /\ kind' = [kind EXCEPT ![c] = "return"]
           /\ req' = [req EXCEPT ![c] = [authorization |-> authHeader, id |-> bookId,
                                         user_id |-> userId]]
           /\ Run(c, IF mw.next THEN Await("getOneById", l)
                     ELSE Answer(mw.status, mw.body, l), TRUE)
  /\ UNCHANGED <<books, loans, users, tokens, nextId, now, mode>>

ReturnResume(c) ==
  /\ kind[c] = "return"
  /\ pc[c] \notin {"idle", "done"}
  /\ \E ok \in Outcomes :
       LET l == loc[c]
           at == pc[c]
           rows == activeLoans(loans, req[c].id, req[c].user_id)
       IN  /\ \E loan \in (IF at = "turnBackBook" /\ rows # {}
                           THEN {[n EXCEPT !.returned_at = now] : n \in rows}
                           ELSE {NoLoan}) :
                Run(c, CASE ~ok -> returnCaught([l EXCEPT !.failed = TRUE])
                         [] at = "getOneById" ->
                              returnGotBook(l, getOneBookById(books, req[c].id))
                         [] at = "turnBackBook" -> returnTurnedBack(l, loan)
                         [] OTHER -> returnUpdated(l),
                    FALSE)
           /\ loans' = IF ok /\ at = "turnBackBook"
                       THEN turnBackBook(loans, req[c].id, req[c].user_id, now)
                       ELSE loans
           /\ books' = IF ok /\ at = "updateStatus"
                       THEN updateStatus(books, req[c].id, TRUE, now) ELSE books
  /\ UNCHANGED <<users, tokens, nextId, now, mode, kind, req>>

NextLoans ==
  \/ Tick
  \/ \E c \in Calls : LoginStart(c)
  \/ \E c \in Calls : LoginResume(c)
  \/ \E c \in Calls : CheckoutStart(c)
  \/ \E c \in Calls : CheckoutResume(c)
  \/ \E c \in Calls : ReturnStart(c)
  \/ \E c \in Calls : ReturnResume(c)

SpecLoans == Init /\ [][NextLoans]_vars

\* ---------------------------------------------------------------- helpers
Done(c) == pc[c] = "done"
LoggedIn(c) == kind[c] = "login" /\ Done(c) /\ res[c].status = 200
Refreshed(c) == kind[c] = "refresh" /\ Done(c)
RowsOfUser(userId) == {r \in tokens : r.user_id = userId}

\* ------------------------------------------------------------------ C1
\* C1 (as claimed): in every reachable state there is at most one refresh-token row
\* per user_id.
C1_OneRowPerUser ==
  \A r1, r2 \in tokens : r1.user_id = r2.user_id => r1 = r2

\* ------------------------------------------------------------------ C2
\* C2 (as claimed): when two logins of the same user have run concurrently and both
\* have completed (and nothing else has run), the store holds exactly one row for
\* that user, and its token is the refresh token returned by the login that
\* completed last.
C2_LastLoginWins ==
  \A c1, c2 \in Calls :
    ( /\ c1 # c2
      /\ LoggedIn(c1) /\ LoggedIn(c2)
      /\ req[c1].username = req[c2].username
      /\ started[c1] < ended[c2] /\ started[c2] < ended[c1]
      /\ ended[c1] < ended[c2]
      /\ \A d \in Calls \ {c1, c2} : kind[d] = "idle" )
    => /\ Cardinality(RowsOfUser(loc[c2].user.id)) = 1
       /\ \A r \in RowsOfUser(loc[c2].user.id) : r.token = res[c2].body.refToken

\* The rows that hold a token, whatever the AuthModel's query returns.
Holding(tbl, token) == {r \in tbl : r.token = token}

\* Call c is a refresh whose handler moves in this step.
RefreshMoves(c) == kind'[c] = "refresh" /\ pc'[c] # pc[c]

\* Two calls that were in flight at the same time.
Overlap(c1, c2) == started[c1] < ended[c2] /\ started[c2] < ended[c1]

\* ------------------------------------------------------------------ C4
\* C4: of the refresh calls that present the same token, at most one answers 200.
C4_AtMostOneSuccess ==
  \A c1, c2 \in Calls :
    ( /\ c1 # c2
      /\ Refreshed(c1) /\ Refreshed(c2)
      /\ req[c1].refreshToken = req[c2].refreshToken )
    => ~(res[c1].status = 200 /\ res[c2].status = 200)

\* Two overlapping refresh calls have presented the same token, which both found in
\* the store, unexpired and verified.
C4_Witness ==
  \E c1, c2 \in Calls :
    /\ c1 # c2
    /\ Refreshed(c1) /\ Refreshed(c2)
    /\ req[c1].refreshToken = req[c2].refreshToken
    /\ loc[c1].verified /\ loc[c2].verified
    /\ Overlap(c1, c2)

\* ------------------------------------------------------------------ C5
\* C5 (as claimed): a refresh call that found its token stored, unexpired and
\* correctly signed answers 200 with a new access and a new refresh token, after
\* which the store holds the new refresh token for that user.
C5_ValidRefreshRotates ==
  \A c \in Calls :
    (Refreshed(c) /\ loc[c].verified /\ ~loc[c].failed)
    => /\ res[c].status = 200
       /\ \E r \in RowsOfUser(loc[c].payload.id) : r.token = loc[c].refToken

\* ------------------------------------------------------------------ C6
\* C6: a refresh call answers 200 only if it found its token in the store, with an
\* expires_at that had not passed, and verified it against the refresh secret; a call
\* whose token is in no row of the store when the store is asked answers 403.
C6_AcceptedOnlyIfValid ==
  /\ [](\A c \in Calls :
          (Refreshed(c) /\ res[c].status = 200)
          => (loc[c].present /\ ~loc[c].stale /\ loc[c].verified))
  /\ [][\A c \in Calls :
          (RefreshMoves(c) /\ pc[c] = "getRefreshToken" /\ mode = "normal")
          => LET token == req[c].refreshToken
                 rows == Holding(tokens, token)
             IN  /\ loc'[c].present <=> rows # {}
                 /\ loc'[c].stale
                      <=> (loc'[c].present /\ isExpired(loc'[c].stored.expires_at, now))
                 /\ loc'[c].verified
                      <=> /\ loc'[c].present /\ ~loc'[c].stale
                          /\ loc'[c].stored \in rows
                          /\ token.secret = JWT_REFRESH_SECRET
                          /\ Sec(now) < token.exp
                 /\ rows = {} => (pc'[c] = "done" /\ res'[c].status = 403)]_vars

\* A refresh call has presented a token that a login returned, that still verifies
\* against the refresh secret and that was no longer in the store: it answered 403.
C6_Witness ==
  \E c \in Calls :
    /\ Refreshed(c)
    /\ req[c].refreshToken.secret = JWT_REFRESH_SECRET
    /\ Sec(now) < req[c].refreshToken.exp
    /\ ~loc[c].present
    /\ res[c].status = 403
    /\ tokens # {}

\* ------------------------------------------------------------------ C7
\* C7: a refresh call whose token is in no row of the store answers 403, a refresh
\* call without a token answers 400, and neither changes the store.
C7_UnknownOrMissingToken ==
  [][\A c \in Calls :
       RefreshMoves(c)
       => /\ (pc[c] = "idle" /\ req'[c].refreshToken = NoToken)
               => (pc'[c] = "done" /\ res'[c].status = 400 /\ tokens' = tokens)
          /\ (pc[c] = "idle" /\ req'[c].refreshToken # NoToken)
               => (pc'[c] = "getRefreshToken" /\ tokens' = tokens)
          /\ (pc[c] = "getRefreshToken" /\ Holding(tokens, req[c].refreshToken) = {})
               => (pc'[c] = "done" /\ res'[c].status = 403 /\ tokens' = tokens)]_vars

\* One refresh call has presented "garbage" and answered 403, another has presented
\* nothing and answered 400, with a row in the store.
C7_Witness ==
  /\ tokens # {}
  /\ \E c \in Calls :
       Refreshed(c) /\ req[c].refreshToken = Garbage /\ res[c].status = 403
  /\ \E c \in Calls :
       Refreshed(c) /\ req[c].refreshToken = NoToken /\ res[c].status = 400

\* ------------------------------------------------------------------ C8
\* C8 (as claimed): a refresh call that found its token in a row whose expires_at has
\* passed answers 403 without any token, and the only change it makes to the store is
\* the removal of the stale rows that hold that token.
C8_ExpiredRemovesOnlyStale ==
  [][\A c \in Calls :
       (RefreshMoves(c) /\ pc[c] = "deleteExpired")
       => /\ pc'[c] = "done" /\ res'[c].status = 403
          /\ DOMAIN res'[c].body = {"error"}
          /\ tokens' = {r \in tokens : ~(r.token = req[c].refreshToken
                                          /\ isExpired(r.expires_at, now))}]_vars

LoginAnswered(c) ==
  kind[c] = "login" /\ Done(c) /\ req[c].username # "" /\ req[c].password # ""

\* The login found no user of that name.
UnknownUsername(c) == LoginAnswered(c) /\ loc[c].user = NoUser

\* The login found the user and the password is not the user's.
WrongPassword(c) ==
  /\ LoginAnswered(c)
  /\ loc[c].user # NoUser
  /\ loc[c].user.password_hash # Hash(req[c].password)

\* C11: a login with a username no user has and a login with a user's name and a wrong
\* password answer the same: status 400 and the same body.
C11_NoEnumeration ==
  \A c1, c2 \in Calls :
    (UnknownUsername(c1) /\ WrongPassword(c2))
    => /\ res[c1] = res[c2]
       /\ res[c1].status = 400

\* One login has named an unknown user, another a user with a wrong password.
C11_Witness ==
  \E c1, c2 \in Calls :
    /\ UnknownUsername(c1) /\ req[c1].username = "carol"
    /\ WrongPassword(c2) /\ req[c2].username = "alice"

\* ----------------------------------------------------------------- C12
\* C12 (as claimed): a login that answers 200 answers a body with exactly the fields
\* message, accessToken, refreshToken and expiresIn, where accessToken and refreshToken
\* are the tokens it issued and refreshToken is in the store's row for that user.
C12_LoginBodyFields ==
  [][\A c \in Calls :
       (kind'[c] = "login" /\ pc[c] # "done" /\ pc'[c] = "done" /\ res'[c].status = 200)
       => /\ DOMAIN res'[c].body = {"message", "accessToken", "refreshToken", "expiresIn"}
          /\ res'[c].body.accessToken = loc'[c].accToken
          /\ res'[c].body.refreshToken = loc'[c].refToken
          /\ \E r \in tokens' :
               r.user_id = loc'[c].user.id /\ r.token = res'[c].body.refreshToken]_vars

\* ----------------------------------------------------------------- C13
\* Call c is a register that has answered 201.
Registered(c) == kind[c] = "register" /\ Done(c) /\ res[c].status = 201

\* Some user of the store has this username.
NameTaken(username) == \E u \in users : u.username = username

\* Call c is a register whose handler moves in this step.
RegisterMoves(c) == kind'[c] = "register" /\ pc'[c] # pc[c]

\* C13: a register with username, email and password all non-empty goes on to ask
\* the store, goes on to hash when the store has no user of that name, and answers
\* 201 with the created user when the store has none as the user is inserted; a
\* login with the same username and password that is received after that answer
\* answers 200 with an access token that verifies against the access secret with the
\* registered username and the created user's id.
C13_RegisterThenLogin ==
  /\ [](\A c, d \in Calls :
          ( /\ Registered(c)
            /\ kind[d] = "login" /\ Done(d)
            /\ req[d].username = req[c].username
            /\ req[d].password = req[c].password
            /\ ended[c] <= started[d] )
          => /\ res[d].status = 200
             /\ LET v == jwtVerify(res[d].body.accToken, JWT_SECRET, loc[d].issuedAt)
                IN  /\ v.ok
                    /\ v.payload.username = req[c].username
                    /\ v.payload.id = res[c].body.user.id)
  /\ [][\A c \in Calls :
          RegisterMoves(c)
          => /\ ( /\ pc[c] = "idle"
                  /\ req'[c].username # "" /\ req'[c].email # ""
                  /\ req'[c].password # "" )
                  => pc'[c] = "getOneByName"
             /\ (pc[c] = "getOneByName" /\ ~NameTaken(req[c].username))
                  => pc'[c] = "hash"
             /\ pc[c] = "hash" => pc'[c] = "create"
             /\ (pc[c] = "create" /\ ~NameTaken(req[c].username))
                  => /\ pc'[c] = "done" /\ res'[c].status = 201
                     /\ \E u \in users' \ users :
                          /\ users' = users \cup {u}
                          /\ u.username = req[c].username
                          /\ u.id = res'[c].body.user.id
                          /\ res'[c].body.user.username = req[c].username]_vars

\* A register of a new username has answered 201 and a login with its username and
\* password, received afterwards, has answered.
C13_Witness ==
  \E c, d \in Calls :
    /\ Registered(c) /\ req[c].username = "carol"
    /\ kind[d] = "login" /\ Done(d)
    /\ req[d].username = req[c].username /\ req[d].password = req[c].password
    /\ ended[c] <= started[d]
    /\ res[c].body.user.id = 3

\* ----------------------------------------------------------------- C14
\* The username of register call c was in the store when the call was received.
TakenBefore(c) ==
  \/ \E u \in InitUsers : u.username = req[c].username
  \/ \E d \in Calls :
       Registered(d) /\ req[d].username = req[c].username /\ ended[d] <= started[c]

\* C14: a register whose username a user of the store already has answers 400, and a
\* register that answers 400 inserts no user and leaves every user's row as it was.
C14_DuplicateUsername ==
  /\ [](\A c \in Calls :
          (kind[c] = "register" /\ Done(c) /\ TakenBefore(c))
          => (res[c].status = 400 /\ loc[c].newUser = NoUser))
  /\ [][\A c \in Calls :
          RegisterMoves(c)
          => /\ (pc[c] = "getOneByName" /\ NameTaken(req[c].username))
                  => (pc'[c] = "done" /\ res'[c].status = 400 /\ users' = users)
             /\ (pc'[c] = "done" /\ res'[c].status = 400) => users' = users]_vars

\* A register has named the username of a user an earlier register created, with all
\* its fields present, and has answered 400 'username already taken'.
C14_Witness ==
  \E c, d \in Calls :
    /\ Registered(d)
    /\ kind[c] = "register" /\ Done(c)
    /\ req[c].username = req[d].username /\ req[c].email # ""
    /\ ended[d] <= started[c]
    /\ res[c] = [status |-> 400, body |-> [error |-> "username already taken"]]
    /\ Cardinality(users) = Cardinality(InitUsers) + 1

\* ----------------------------------------------------------------- C15
\* C15 (as claimed): every user with role "admin" that a register call created was
\* created for a requester whose resolved role is "admin".
C15_AdminOnlyByAdmin ==
  \A u \in users :
    u.role = "admin"
    => \/ u \in InitUsers
       \/ \E c \in Calls :
            /\ kind[c] = "register"
            /\ loc[c].newUser = u
            /\ loc[c].identity.role = "admin"

\* ----------------------------------------------------------------- C16
\* The header is exactly two space-separated parts, the first literally Bearer.
WellFormed(h) ==
  /\ Len(h) >= 2
  /\ h[1] = Word("Bearer") /\ h[2] = Sp
  /\ \A i \in 3..Len(h) : h[i].k # "sp"

\* The second part of a well-formed header is a token that passes access
\* verification at clock t: signed with the access secret and not expired.
Verifies(h, t) ==
  /\ Len(h) = 3 /\ h[3].k = "tok"
  /\ h[3].t.secret = JWT_SECRET
  /\ Sec(t) < h[3].t.exp

\* Call c is a request on /auth/profile that is received in this step.
ProfileReceived(c) == kind'[c] = "profile" /\ pc[c] = "idle"

\* C16: the middleware answers 401 when there is no Authorization header, 401 when
\* the header is not exactly two space-separated parts with the first literally
\* Bearer, 403 when the header is well-formed and its token fails access verification,
\* nothing when the token passes; it sends no other status.
C16_MiddlewareStatuses ==
  [][\A c \in Calls :
       ProfileReceived(c)
       => LET h == req'[c].authorization
              l == loc'[c]
          IN  /\ h = <<>> => (l.sent /\ res'[c].status = 401)
              /\ (h # <<>> /\ ~WellFormed(h)) => (l.sent /\ res'[c].status = 401)
              /\ (WellFormed(h) /\ ~Verifies(h, now)) => (l.sent /\ res'[c].status = 403)
              /\ (WellFormed(h) /\ Verifies(h, now)) => ~l.sent
              /\ l.sent => (pc'[c] = "done" /\ res'[c].status \in {401, 403})]_vars

\* The middleware has answered 401 to a header that carries an issued access token
\* after two spaces, and 403 to a well-formed header whose access token had expired.
C16_Witness ==
  \E c1, c2 \in Calls :
    /\ kind[c1] = "profile" /\ Done(c1) /\ loc[c1].sent /\ res[c1].status = 401
    /\ Len(req[c1].authorization) = 4
    /\ req[c1].authorization[4].t.secret = JWT_SECRET
    /\ kind[c2] = "profile" /\ Done(c2) /\ loc[c2].sent /\ res[c2].status = 403
    /\ WellFormed(req[c2].authorization)
    /\ Len(req[c2].authorization) = 3
    /\ req[c2].authorization[3].t.secret = JWT_SECRET

\* ----------------------------------------------------------------- C17
\* getProfile has run for call c: it is at its await or has sent a response of its own.
HandlerRan(c) ==
  \/ pc[c] = "getOneById"
  \/ /\ Done(c)
     /\ \/ res[c].status \in {200, 404, 500}
        \/ res[c].status = 401 /\ res[c].body.error = "Unauthorized"

\* C17: for every request on the protected route the middleware either sends a
\* response or calls next(), never both and never neither; getProfile runs only when
\* next() was called, which happens only for a bearer token signed with the access
\* secret and unexpired when the request is received, with req.user the payload that
\* token decodes to.
C17_HandlerOnlyBehindMiddleware ==
  /\ [](\A c \in Calls :
          (kind[c] = "profile" /\ pc[c] # "idle")
          => /\ loc[c].sent # loc[c].next
             /\ HandlerRan(c) => loc[c].next
             /\ loc[c].next
                  => LET h == req[c].authorization IN
                     /\ WellFormed(h) /\ Len(h) = 3 /\ h[3].k = "tok"
                     /\ h[3].t.secret = JWT_SECRET
                     /\ loc[c].identity =
                          [id |-> h[3].t.id, username |-> h[3].t.username,
                           role |-> h[3].t.role, iat |-> h[3].t.iat, exp |-> h[3].t.exp])
  /\ [][\A c \in Calls :
          (ProfileReceived(c) /\ loc'[c].next)
          => Sec(now) < req'[c].authorization[3].t.exp]_vars

\* One request has passed the middleware and got alice's profile from the handler;
\* another was answered by the middleware and the handler did not run.
C17_Witness ==
  \E c1, c2 \in Calls :
    /\ kind[c1] = "profile" /\ Done(c1) /\ loc[c1].next /\ res[c1].status = 200
    /\ loc[c1].identity.id = 1 /\ res[c1].body.username = "alice"
    /\ kind[c2] = "profile" /\ Done(c2) /\ loc[c2].sent /\ ~HandlerRan(c2)

\* ----------------------------------------------------------------- C18
\* Call c is a verifyAccessToken that has returned or thrown.
VerifyDone(c) == kind[c] = "verify" /\ Done(c)

\* C18 (as claimed): an access token issued from a payload at clock t0 verifies to a
\* payload with the same id at every clock before t0 + access TTL, and verification
\* fails at every clock after t0 + access TTL.
C18_RoundTripUntilTtl ==
  \A c \in Calls :
    VerifyDone(c)
    => LET t0 == req[c].issuedAt
           t == loc[c].verifiedAt
       IN  /\ t < t0 + ms(ACCESS_TOKEN_TTL)
                => (res[c].status = 200 /\ res[c].body.payload.id = req[c].payload.id)
           /\ t > t0 + ms(ACCESS_TOKEN_TTL) => res[c].status # 200

\* C18 (amended): an access token issued from a payload at clock t0 verifies to a
\* payload with the same id at every clock whose second is before the second of t0 +
\* access TTL in seconds, and verification fails from that second on.
C18_RoundTripUntilExp ==
  \A c \in Calls :
    VerifyDone(c)
    => LET t0 == req[c].issuedAt
           t == loc[c].verifiedAt
           exp == Sec(t0) + timespan(ACCESS_TOKEN_TTL)
       IN  /\ Sec(t) < exp
                => (res[c].status = 200 /\ res[c].body.payload.id = req[c].payload.id)
           /\ Sec(t) >= exp => res[c].status # 200

\* A token has been verified to its payload's id, and verification of the same token
\* has failed later, at a clock before its issuance + access TTL.
C18_Witness ==
  \E c1, c2 \in Calls :
    /\ VerifyDone(c1) /\ VerifyDone(c2)
    /\ req[c1].token = req[c2].token
    /\ res[c1].status = 200 /\ res[c1].body.payload.id = req[c1].payload.id
    /\ res[c2].status # 200
    /\ loc[c1].verifiedAt < loc[c2].verifiedAt
    /\ loc[c2].verifiedAt < req[c2].issuedAt + ms(ACCESS_TOKEN_TTL)

\* ----------------------------------------------------------------- C19
\* The request on /auth/profile carries a token signed with the refresh secret.
PresentsRefreshToken(c) ==
  \E i \in DOMAIN req[c].authorization :
    /\ req[c].authorization[i].k = "tok"
    /\ req[c].authorization[i].t.secret = JWT_REFRESH_SECRET

\* C19: a refresh call that presents a token signed with the access secret never
\* passes verification and never answers 200; a request that presents a token signed
\* with the refresh secret never passes the middleware, which answers it 403 when the
\* header is well-formed, and its handler does not run.
C19_TokenKindsNotInterchangeable ==
  /\ JWT_SECRET # JWT_REFRESH_SECRET
  /\ \A c \in Calls :
       (kind[c] = "refresh" /\ req[c].refreshToken.secret = JWT_SECRET)
       => /\ ~loc[c].verified
          /\ Done(c) => res[c].status \in {400, 403}
  /\ \A c \in Calls :
       (kind[c] = "profile" /\ pc[c] # "idle" /\ PresentsRefreshToken(c))
       => /\ loc[c].sent /\ ~loc[c].next /\ ~HandlerRan(c)
          /\ loc[c].identity = NoPayload
          /\ WellFormed(req[c].authorization) => res[c].status = 403

\* A refresh call has presented an access token a login returned, and a request has
\* presented a refresh token a login returned as its bearer token; neither token has
\* expired and both calls were answered 403.
C19_Witness ==
  \E c1, c2 \in Calls :
    /\ Refreshed(c1)
    /\ req[c1].refreshToken.secret = JWT_SECRET
    /\ Sec(now) < req[c1].refreshToken.exp
    /\ res[c1].status = 403
    /\ kind[c2] = "profile" /\ Done(c2)
    /\ WellFormed(req[c2].authorization) /\ Len(req[c2].authorization) = 3
    /\ req[c2].authorization[3].t.secret = JWT_REFRESH_SECRET
    /\ Sec(now) < req[c2].authorization[3].t.exp
    /\ res[c2].status = 403

\* ----------------------------------------------------------------- C20
HasHashField(r) == "password_hash" \in DOMAIN r

TokenFields == {"accToken", "refToken", "accessToken", "refreshToken"}

\* C20: no response of register, login, refresh or getProfile has a password_hash
\* field, at its top level, in its user object or in the claims of a token it carries;
\* the user object of register has the fields id, username, email and role, and the
\* profile that getProfile answers has exactly the fields id, username, email, role,
\* created_at and updated_at.
C20_NoPasswordHashInResponses ==
  \A c \in Calls :
    (Done(c) /\ kind[c] \in {"register", "login", "refresh", "profile"})
    => LET body == res[c].body IN
       /\ ~HasHashField(body)
       /\ "user" \in DOMAIN body
            => DOMAIN body.user = {"id", "username", "email", "role"}
       /\ \A f \in DOMAIN body \cap TokenFields : ~HasHashField(body[f])
       /\ (kind[c] = "profile" /\ res[c].status = 200)
            => DOMAIN body = {"id", "username", "email", "role", "created_at",
                              "updated_at"}

\* A register has answered 201, a login 200 and getProfile 200 with the profile of the
\* registered user.
C20_Witness ==
  \E c1, c2, c3 \in Calls :
    /\ Registered(c1)
    /\ LoggedIn(c2) /\ req[c2].username = req[c1].username
    /\ kind[c3] = "profile" /\ Done(c3) /\ res[c3].status = 200
    /\ res[c3].body.username = req[c1].username

\* ----------------------------------------------------------------- C21
\* C21: getProfile on a request with no identity answers 401; getProfile on a request
\* with an identity answers 404 when no user of the store has the identity's id as the
\* store is asked, and the profile of that user otherwise.
C21_ProfileUnauthorizedOrNotFound ==
  [][\A c \in Calls :
       /\ (kind'[c] = "getProfile" /\ pc[c] = "idle")
            => /\ pc'[c] = "done"
               /\ res'[c] = [status |-> 401, body |-> [error |-> "Unauthorized"]]
       /\ (kind[c] = "profile" /\ pc[c] = "getOneById" /\ pc'[c] = "done")
            => IF \E u \in users : u.id = loc[c].identity.id
               THEN res'[c].status = 200 /\ res'[c].body.id = loc[c].identity.id
               ELSE res'[c] = [status |-> 404, body |-> [error |-> "User not found"]]]_vars

\* A user has logged in and was deleted, and getProfile has answered 404 to the
\* access token of that login, which has not expired.
C21_Witness ==
  \E c, d, e \in Calls :
    /\ LoggedIn(c)
    /\ kind[d] = "deleteUser" /\ Done(d) /\ res[d].status = 200
    /\ req[d].id = loc[c].user.id
    /\ kind[e] = "profile" /\ Done(e) /\ res[e].status = 404
    /\ req[e].authorization[3].t = res[c].body.accToken
    /\ Sec(now) < res[c].body.accToken.exp

\* ----------------------------------------------------------------- C22
\* C22 (as claimed): a register, login, refresh or getProfile call in which a store
\* query or a hash has failed answers 500 with the fixed body {error: 'Server error'}.
C22_FailuresAnswer500 ==
  \A c \in Calls :
    ( /\ kind[c] \in {"register", "login", "refresh", "profile"}
      /\ Done(c)
      /\ loc[c].failed )
    => res[c] = [status |-> 500, body |-> [error |-> "Server error"]]

\* ----------------------------------------------------------------- C23
\* Login d of a user was received after login c of the same user had answered 200.
LoggedInAgain(c, d) ==
  /\ LoggedIn(c) /\ LoggedIn(d)
  /\ loc[c].user.id = loc[d].user.id
  /\ ended[c] <= started[d]

\* No login of the same user has answered after login d.
LastLogin(d) ==
  \A e \in Calls : (LoggedIn(e) /\ loc[e].user.id = loc[d].user.id) => ended[e] <= ended[d]

\* C23: a refresh call that presents the refresh token of a login, and is received
\* after a later login of the same user has answered 200, does not answer 200; when
\* the later login is the user's last and returned another token string, the call
\* finds the presented token in no row of the store and answers 403.
C23_SingleActiveSession ==
  \A c, d, r \in Calls :
    ( /\ LoggedInAgain(c, d)
      /\ Refreshed(r)
      /\ req[r].refreshToken = res[c].body.refToken
      /\ ended[d] <= started[r] )
    => /\ res[r].status # 200
       /\ (res[c].body.refToken # res[d].body.refToken /\ LastLogin(d))
            => /\ ~loc[r].present
               /\ res[r] = [status |-> 403, body |-> [error |-> "Invalid refresh token"]]

\* A user has logged in twice, one login after the other and with different tokens,
\* and a refresh call that presented the first login's token afterwards has answered.
C23_Witness ==
  \E c, d, r \in Calls :
    /\ LoggedInAgain(c, d)
    /\ res[c].body.refToken # res[d].body.refToken
    /\ Refreshed(r)
    /\ req[r].refreshToken = res[c].body.refToken
    /\ ended[d] <= started[r]
    /\ Sec(now) < req[r].refreshToken.exp

\* ----------------------------------------------------------------- C24
\* Before refresh call r was received, the token it presents had been removed from the
\* store: an earlier refresh call found it stale and deleted it, or rotated it, or a
\* later login of its user replaced it by another token.
RemovedBefore(r) ==
  LET token == req[r].refreshToken IN
  \/ \E r0 \in Calls \ {r} :
       /\ Refreshed(r0)
       /\ req[r0].refreshToken = token
       /\ ended[r0] <= started[r]
       /\ (loc[r0].stale \/ res[r0].status = 200)
  \/ \E c, d \in Calls :
       /\ LoggedInAgain(c, d)
       /\ res[c].body.refToken = token
       /\ res[d].body.refToken # token
       /\ ended[d] <= started[r]

\* C24: a refresh call does not answer 200 for a token that had been removed from the
\* store before the call was received, nor for a token whose exp has passed when the
\* store is asked; and a call signs a token only with the current second as iat and
\* an exp that has not passed, so that no token string is issued again once the second
\* of its issuance is over.
C24_RevokedIsTerminal ==
  /\ [](\A r \in Calls :
          (Refreshed(r) /\ req[r].refreshToken # NoToken /\ RemovedBefore(r))
          => res[r].status # 200)
  /\ [][\A c \in Calls :
          /\ (RefreshMoves(c) /\ pc[c] = "getRefreshToken"
                /\ Sec(now) >= req[c].refreshToken.exp)
               => /\ ~loc'[c].verified
                  /\ pc'[c] \in {"done", "deleteExpired"}
                  /\ pc'[c] = "done" => res'[c].status = 403
          /\ (kind[c] \in {"login", "refresh"} /\ loc'[c].token # loc[c].token)
               => /\ loc'[c].token.iat = Sec(now)
                  /\ loc'[c].token.exp > Sec(now)]_vars

\* A login's refresh token was found stale by one refresh call, which deleted it, and
\* a refresh call received after that presented it again and has answered.
C24_Witness ==
  \E c, r0, r \in Calls :
    /\ LoggedIn(c)
    /\ r0 # r
    /\ Refreshed(r0) /\ Refreshed(r)
    /\ req[r0].refreshToken = res[c].body.refToken
    /\ req[r].refreshToken = res[c].body.refToken
    /\ loc[r0].stale
    /\ ended[r0] <= started[r]
    /\ ~loc[r].present /\ res[r].status = 403

\* ----------------------------------------------------------------- C25
\* C25 (as claimed): the payload a refresh call hands to the signing of its new tokens
\* is a fresh one that holds only id, username and role, equal to those of the
\* presented token, and the tokens of a refresh call that answers 200 carry the iat
\* and exp of the new issuance.
C25_FreshPayload ==
  \A c \in Calls :
    (Refreshed(c) /\ loc[c].verified)
    => /\ DOMAIN loc[c].payload = {"id", "username", "role"}
       /\ loc[c].payload.id = req[c].refreshToken.id
       /\ loc[c].payload.username = req[c].refreshToken.username
       /\ loc[c].payload.role = req[c].refreshToken.role
       /\ res[c].status = 200
            => /\ res[c].body.accessToken.iat = Sec(loc[c].issuedAt)
               /\ res[c].body.accessToken.exp
                    = Sec(loc[c].issuedAt) + timespan(ACCESS_TOKEN_TTL)
               /\ res[c].body.refreshToken.iat = Sec(loc[c].issuedAt)
               /\ res[c].body.refreshToken.exp
                    = Sec(loc[c].issuedAt) + timespan(REFRESH_TOKEN_TTL)

\* ----------------------------------------------------------------- C26
\* C26: every row of the store has as user_id the id claim of its token, and a call
\* that is about to write the store writes its token under the id claim of that token.
C26_RowUnderTokensUser ==
  /\ \A r \in tokens : r.user_id = r.token.id
  /\ \A c \in Calls :
       (kind[c] \in {"login", "refresh"} /\ pc[c] \in {"select", "update", "insert"})
       => loc[c].userId = loc[c].token.id

\* The store holds rows of two users, each written by a login of that user.
C26_Witness ==
  \E c, d \in Calls :
    /\ LoggedIn(c) /\ LoggedIn(d)
    /\ loc[c].user.id # loc[d].user.id
    /\ \E r \in tokens : r.token = res[c].body.refToken /\ r.user_id = loc[c].user.id
    /\ \E r \in tokens : r.token = res[d].body.refToken /\ r.user_id = loc[d].user.id

\* ----------------------------------------------------------------- C27
\* Call c is a register with all its fields that has answered.
RegisterAnswered(c) ==
  /\ kind[c] = "register" /\ Done(c)
  /\ req[c].username # "" /\ req[c].email # "" /\ req[c].password # ""

\* C27 (as claimed): no two users of the store share a username, and of two register
\* calls that were in flight at the same time for the same username, which no user had
\* when they were received and no other register names, one answers 201 and the other
\* 400.
C27_UniqueUnderInterleaving ==
  /\ \A u, v \in users : u.username = v.username => u = v
  /\ \A c, d \in Calls :
       ( /\ c # d
         /\ RegisterAnswered(c) /\ RegisterAnswered(d)
         /\ req[c].username = req[d].username
         /\ ~TakenBefore(c) /\ ~TakenBefore(d)
         /\ Overlap(c, d)
         /\ \A e \in Calls \ {c, d} :
              kind[e] = "register" => req[e].username # req[c].username )
       => {res[c].status, res[d].status} = {201, 400}

\* ----------------------------------------------------------------- C28
\* Call c is a checkoutBook that has answered 201.
CheckedOut(c) == kind[c] = "checkout" /\ Done(c) /\ res[c].status = 201

\* C28 (as claimed): a checkoutBook that reads a book whose available flag is false
\* answers 400 and leaves books and loans as they were, and of two checkoutBook calls
\* for the same book that were in flight at the same time at most one answers 201.
C28_UnavailableNeverCheckedOut ==
  /\ [][\A c \in Calls :
          ( /\ kind[c] = "checkout" /\ pc[c] = "getOneById" /\ pc'[c] # pc[c]
            /\ \E b \in books : b.id = req[c].id /\ ~b.available )
          => /\ pc'[c] = "done"
             /\ res'[c] = [status |-> 400, body |-> [error |-> "Book is not available"]]
             /\ books' = books /\ loans' = loans]_vars
  /\ [](\A c, d \in Calls :
          (c # d /\ CheckedOut(c) /\ CheckedOut(d) /\ Overlap(c, d))
          => req[c].id # req[d].id)

\* ----------------------------------------------------------------- C29
\* Call r is a returnBook for the book and by the user of checkout c, received after
\* c had answered.
ReturnOf(c, r) ==
  /\ kind[r] = "return"
  /\ req[r].id = req[c].id
  /\ loc[r].identity.id = loc[c].identity.id
  /\ req[r].user_id = loc[c].identity.id
  /\ ended[c] <= started[r]

\* C29 (as claimed): once a checkoutBook has answered 201, and until a returnBook for
\* that book by that user is received, there is an active loan for the book and the
\* user; the returnBook of that book by that user that follows answers 200 and leaves
\* the book available.
C29_CheckoutThenReturn ==
  \A c \in Calls :
    CheckedOut(c)
    => /\ (\A r \in Calls : kind[r] = "return" => ~ReturnOf(c, r))
            => activeLoans(loans, req[c].id, loc[c].identity.id) # {}
       /\ \A r \in Calls :
            ( /\ kind[r] = "return" /\ ReturnOf(c, r) /\ Done(r)
              /\ \A e \in Calls \ {c, r} : kind[e] \notin {"checkout", "return"} )
            => /\ res[r].status = 200
               /\ \E b \in books : b.id = req[c].id /\ b.available

====
